---- MODULE Spec2Model ----
(***************************************************************************)
(* Verification model of three units of the JetBrainsRuntime sources:      *)
(*   - sun.java2d.marlin.RendererContext   (per-thread renderer context)   *)
(*   - WLVKSurfaceData.cpp                 (Wayland/Vulkan surface lock)   *)
(*   - JawsAnnouncer.cpp                   (JAWS screen-reader announcer)  *)
(* Each unit has its own specification over the shared state vector; the   *)
(* variables of the other units stay at their initial values.              *)
(***************************************************************************)
EXTENDS Integers, Sequences, FiniteSets, TLC

VARIABLES
    DO_STATS,   \* MarlinConst.DO_STATS, a build-time switch
    rc,         \* one RendererContext instance (SpecCtx)
    seenOffHeap,\* history: the values stats.totalOffHeap had when the
                \* dispose() calls made so far on rc began
    CTX_COUNT,  \* RendererContext.CTX_COUNT, the creation counter
    ctxs,       \* the contexts created so far, in order of construction
    idle,       \* context pool: indices (in ctxs) of the idle contexts
    held,       \* context pool: per thread, the context it holds, 0 if none
    pending,    \* per thread, the counter value createContext() has drawn
                \* for a context under construction, 0 if none
    lost,       \* history: the counter values drawn by createContext()
                \* calls whose constructor threw
    arrays,     \* the pooled arrays of one context's array caches
    path2Ds,    \* the Path2D.Double objects getPath2D() has created
    strong,     \* per caller of getPath2D(): the Path2D it still refers to,
                \* 0 if none
    lastPath,   \* history: the Path2D the latest getPath2D() returned, 0 if
                \* there is none or it has been collected since
    sd,         \* per surface: its life cycle and its WLVKSDOps.lock mutex
    lockpc,     \* per thread: 0, or the surface whose WLVKSD_Lock it is in
    bal,        \* history, per thread and surface: WLVKSD_Lock calls that
                \* have returned minus WLVKSD_Unlock calls made
    jaws,       \* the function-local statics of JawsAnnounce
    proc,       \* "running", or "exited" once the statics are destroyed
    jhist,      \* history: counts of the COM calls made so far
    last        \* history: the operation that produced the current state

\* the variables each unit leaves alone
lockVars == <<sd, lockpc, bal>>
jawsVars == <<jaws, proc, jhist>>
pathVars == <<path2Ds, strong, lastPath>>
marlinVars == <<DO_STATS, rc, seenOffHeap, CTX_COUNT, ctxs, idle, held, pending, lost,
                arrays, pathVars>>
statsFrame == <<DO_STATS, CTX_COUNT, ctxs, idle, held, pending, lost, arrays,
                pathVars, lockVars, jawsVars>>
ctxFrame == <<seenOffHeap, statsFrame>>
poolFrame == <<DO_STATS, rc, seenOffHeap, lost, arrays, pathVars, lockVars, jawsVars>>
createFrame == <<DO_STATS, rc, seenOffHeap, arrays, pathVars, lockVars, jawsVars>>
cacheFrame == <<DO_STATS, rc, seenOffHeap, CTX_COUNT, ctxs, idle, held, pending, lost,
                pathVars, lockVars, jawsVars>>
pathFrame == <<DO_STATS, seenOffHeap, CTX_COUNT, ctxs, idle, held, pending, lost, arrays,
               lockVars, jawsVars>>
lockFrame == <<marlinVars, jawsVars>>
jawsFrame == <<marlinVars, lockVars>>

----------------------------------------------------------------------------
(* Bounds of the model *)

\* largest clip inverse scale tried (clipInvScale is a double; 0 is 0.0d)
MaxClipInvScale == 1

\* number of worker threads
MaxThreads == 2

\* largest capacity of a pooled array, and largest N written
MaxCap == 2
\* largest number of pooled arrays allocated
MaxArrays == 1

\* number of surfaces
MaxSurfaces == 2
\* deepest nesting of WLVKSD_Lock calls by one thread on one surface
MaxDepth == 2

\* number of JawsAnnounce calls
MaxCalls == 3

\* largest number of off-heap bytes accounted for between two dispose()
\* calls, and largest sum of the initial sizes of off-heap arrays
MaxOffHeap == 2

\* number of createContext() calls
MaxCreations == 3

\* number of Path2D objects created, of path segments appended to one of
\* them, and of callers of getPath2D()
MaxPaths == 2
MaxSegments == 2
MaxCallers == 2

(* Program constants *)

\* firstFlags uses bits 0..2
MaxFirstFlags == 7

----------------------------------------------------------------------------
(* RendererContext *)

\* the pipelined blocks a context owns and that have a dispose() of their own
Stages == {"nPCPathIterator", "nPQPathIterator", "dasher", "stroker",
           "renderer", "cache"}

\* the array caches a context owns
ArrayCaches == {"cleanIntCache", "dirtyIntCache", "dirtyDoubleCache",
                "dirtyByteCache"}

\* new RendererContext(name): field initialisers and constructor
RendererContext(name) ==
    [ name            |-> name,
      dirty           |-> FALSE,
      stroking        |-> 0,
      doClip          |-> FALSE,
      closedPath      |-> FALSE,
      clipInvScale    |-> 0,
      firstFlags      |-> 0,
      \* WeakReference<Path2D.Double>: 0 is null, k > 0 is a weak reference
      \* whose referent, until it is collected, is path2Ds[k]
      refPath2D       |-> 0,
      \* identity of the final stage / cache fields (one object per field)
      inst            |-> [s \in Stages \cup ArrayCaches |-> <<name, s>>],
      \* internal state of each stage: "idle", or "partial" while it holds
      \* buffers of an unfinished pipeline run
      stage           |-> [s \in Stages |-> "idle"],
      \* history: calls made by the most recent dispose(), in order
      calls           |-> <<>>,
      \* fields of stats (RendererStats), in use when DO_STATS
      totalOffHeapInitial |-> 0,
      totalOffHeap    |-> 0,
      totalOffHeapMax |-> 0 ]

\* <stage>.dispose(): the stage drops its partial buffers
StageDispose(c, s) ==
    [c EXCEPT !.stage[s] = "idle", !.calls = Append(@, s)]

\* mutant of DisposeStats: the peak is overwritten by the current value
DisposeStats_Overwrites(c) ==
    IF DO_STATS
    THEN [c EXCEPT !.totalOffHeapMax = c.totalOffHeap, !.totalOffHeap = 0]
    ELSE c

\* dispose(), statistics part
DisposeStats(c) ==
    IF DO_STATS
    THEN [c EXCEPT !.totalOffHeapMax =
                       IF c.totalOffHeap > @ THEN c.totalOffHeap ELSE @,
                   !.totalOffHeap = 0]
    ELSE c

\* mutant of DisposeOpState: firstFlags is not reset
DisposeOpState_KeepsFirstFlags(c) ==
    [c EXCEPT !.stroking = 0, !.doClip = FALSE, !.closedPath = FALSE,
              !.clipInvScale = 0]

\* dispose(), per-operation state
DisposeOpState(c) ==
    [c EXCEPT !.stroking = 0, !.doClip = FALSE, !.closedPath = FALSE,
              !.clipInvScale = 0, !.firstFlags = 0]

\* mutant of MarkClean: the dirty flag is left as it is
MarkClean_KeepsDirty(c) ==
    [c EXCEPT !.calls = Append(@, "dirty=false")]

\* dispose(), mark context as CLEAN
MarkClean(c) ==
    [c EXCEPT !.dirty = FALSE, !.calls = Append(@, "dirty=false")]

\* mutant of DisposeDirty: the dasher is left out of the forced cleanup
DisposeDirty_SkipsDasher(c) ==
    IF c.dirty
    THEN MarkClean(
           StageDispose(
             StageDispose(
               StageDispose(c, "nPCPathIterator"),
               "nPQPathIterator"),
             "stroker"))
    ELSE c

\* mutant of DisposeDirty: the forced cleanup runs whatever the dirty flag is
DisposeDirty_Always(c) ==
    MarkClean(
      StageDispose(
        StageDispose(
          StageDispose(
            StageDispose(c, "nPCPathIterator"),
            "nPQPathIterator"),
          "dasher"),
        "stroker"))

\* dispose(), cleanup of a context marked as DIRTY
DisposeDirty(c) ==
    IF c.dirty
    THEN MarkClean(
           StageDispose(
             StageDispose(
               StageDispose(
                 StageDispose(c, "nPCPathIterator"),
                 "nPQPathIterator"),
               "dasher"),
             "stroker"))
    ELSE c

\* RendererContext.dispose()
Dispose(c) ==
    DisposeDirty(DisposeOpState(DisposeStats([c EXCEPT !.calls = <<>>])))

----------------------------------------------------------------------------
(* SpecCtx: one context driven by the rendering pipeline *)

\* history record: the operation just performed and what it started from
Stamp(op, info) == [op |-> op, info |-> info]

\* TRUE iff some per-operation field of c differs from its initial value
HasOpState(c) ==
    \/ c.stroking # 0
    \/ c.doClip
    \/ c.closedPath
    \/ c.clipInvScale # 0
    \/ c.firstFlags # 0

\* what a dispose() call started from
DisposeInfo(c) ==
    [wasDirty |-> c.dirty, hadOpState |-> HasOpState(c),
     partial |-> {s \in Stages : c.stage[s] = "partial"},
     offHeap |-> c.totalOffHeap, offHeapMax |-> c.totalOffHeapMax]

\* the pipeline stores the per-operation fields of the context
SetStroking(v) ==
    /\ rc' = [rc EXCEPT !.stroking = v]
    /\ last' = Stamp("set", <<>>)
    /\ UNCHANGED ctxFrame

SetDoClip(v) ==
    /\ rc' = [rc EXCEPT !.doClip = v]
    /\ last' = Stamp("set", <<>>)
    /\ UNCHANGED ctxFrame

SetClosedPath(v) ==
    /\ rc' = [rc EXCEPT !.closedPath = v]
    /\ last' = Stamp("set", <<>>)
    /\ UNCHANGED ctxFrame

SetClipInvScale(v) ==
    /\ rc' = [rc EXCEPT !.clipInvScale = v]
    /\ last' = Stamp("set", <<>>)
    /\ UNCHANGED ctxFrame

SetFirstFlags(v) ==
    /\ rc' = [rc EXCEPT !.firstFlags = v]
    /\ last' = Stamp("set", <<>>)
    /\ UNCHANGED ctxFrame

\* the pipeline marks the context dirty before pathTo() and clean after it;
\* an exception in between leaves it dirty
SetDirty(v) ==
    /\ rc' = [rc EXCEPT !.dirty = v]
    /\ last' = Stamp("set", <<>>)
    /\ UNCHANGED ctxFrame

\* a stage starts to process path elements
StageWork(s) ==
    /\ rc.stage[s] = "idle"
    /\ rc' = [rc EXCEPT !.stage[s] = "partial"]
    /\ last' = Stamp("work", <<>>)
    /\ UNCHANGED ctxFrame

\* a stage finishes its path normally and cleans itself up
StageDone(s) ==
    /\ rc.stage[s] = "partial"
    /\ rc' = [rc EXCEPT !.stage[s] = "idle"]
    /\ last' = Stamp("work", <<>>)
    /\ UNCHANGED ctxFrame

\* dispose() is called on the context
CtxDispose ==
    /\ rc' = Dispose(rc)
    /\ seenOffHeap' = IF DO_STATS THEN seenOffHeap \cup {rc.totalOffHeap}
                      ELSE seenOffHeap
    /\ last' = Stamp("dispose", DisposeInfo(rc))
    /\ UNCHANGED statsFrame

Threads == 1..MaxThreads

Callers == 1..MaxCallers

Surfaces == 1..MaxSurfaces

\* a surface before initOps: no native ops, no mutex
NoSurface == [state |-> "none", type |-> "none", owner |-> 0, count |-> 0]

\* the statics of JawsAnnounce before its first call: comInitThreadId is
\* not set (0), and neither wrapper has been constructed
JawsStatics ==
    [ comInitThreadId    |-> 0,
      comInitializer     |-> FALSE,   \* constructed?
      m_initializeResult |-> "CO_E_NOTINITIALIZED",
      pJawsApi           |-> FALSE,   \* constructed?
      objPtr             |-> "nullptr" ]

\* history counters: JawsAnnounce calls, CoInitialize calls, those that
\* succeeded, CoUninitialize calls, CoCreateInstance calls, Release calls,
\* the thread of the first JawsAnnounce call and the threads that made COM
\* or JNI string calls inside JawsAnnounce
NoComCalls ==
    [ calls |-> 0, coInit |-> 0, coInitOk |-> 0, coUninit |-> 0,
      coCreate |-> 0, release |-> 0, first |-> 0, apiThreads |-> {} ]

\* the state every unit starts from
InitAll ==
    /\ DO_STATS \in BOOLEAN
    /\ rc = RendererContext(<<"ctx", 1>>)
    /\ seenOffHeap = {}
    /\ CTX_COUNT = 1
    /\ ctxs = <<>>
    /\ idle = {}
    /\ held = [t \in Threads |-> 0]
    /\ pending = [t \in Threads |-> 0]
    /\ lost = {}
    /\ arrays = <<>>
    /\ path2Ds = <<>>
    /\ strong = [k \in Callers |-> 0]
    /\ lastPath = 0
    /\ sd = [s \in Surfaces |-> NoSurface]
    /\ lockpc = [t \in Threads |-> 0]
    /\ bal = [t \in Threads |-> [s \in Surfaces |-> 0]]
    /\ jaws = JawsStatics
    /\ proc = "running"
    /\ jhist = NoComCalls
    /\ last = Stamp("init", <<>>)

InitCtx == InitAll

NextCtx ==
    \/ \E v \in {0, 1} : SetStroking(v)
    \/ \E v \in BOOLEAN : SetDoClip(v)
    \/ \E v \in BOOLEAN : SetClosedPath(v)
    \/ \E v \in 0..MaxClipInvScale : SetClipInvScale(v)
    \/ \E v \in 0..MaxFirstFlags : SetFirstFlags(v)
    \/ \E v \in BOOLEAN : SetDirty(v)
    \/ \E s \in Stages : StageWork(s)
    \/ \E s \in Stages : StageDone(s)
    \/ CtxDispose

vars == <<DO_STATS, rc, seenOffHeap, CTX_COUNT, ctxs, idle, held, pending, lost, arrays,
          path2Ds, strong, lastPath, sd, lockpc, bal, jaws, proc, jhist, last>>

SpecCtx == InitCtx /\ [][NextCtx]_vars

----------------------------------------------------------------------------
(* Claims on RendererContext.dispose(), checked under SpecCtx *)

\* the stages dispose() must force-reset on a dirty context
ForcedStages == {"nPCPathIterator", "nPQPathIterator", "dasher", "stroker"}

\* position of the first occurrence of e in sequence q, 0 if there is none
FirstIndex(q, e) ==
    IF \E i \in 1..Len(q) : q[i] = e
    THEN CHOOSE i \in 1..Len(q) : q[i] = e /\ \A j \in 1..(i - 1) : q[j] # e
    ELSE 0

\* C2: a dispose() that starts on a dirty context calls dispose() on both
\* normalizing path iterators, the dasher and the stroker, each before the
\* dirty flag is cleared, leaves these four stages idle, and calls dispose()
\* on neither the renderer nor the cache, whose state it leaves as it was.
C2_DirtyDisposeForcesReset ==
    (last.op = "dispose" /\ last.info.wasDirty) =>
        /\ FirstIndex(rc.calls, "dirty=false") > 0
        /\ \A s \in ForcedStages :
              /\ FirstIndex(rc.calls, s) > 0
              /\ FirstIndex(rc.calls, s) < FirstIndex(rc.calls, "dirty=false")
              /\ rc.stage[s] = "idle"
        /\ \A s \in {"renderer", "cache"} :
              /\ FirstIndex(rc.calls, s) = 0
              /\ (rc.stage[s] = "partial") <=> (s \in last.info.partial)
        /\ ~rc.dirty

\* C2 witness: a dirty context whose dasher and renderer both held partial
\* buffers has been disposed
C2_Witness ==
    /\ last.op = "dispose"
    /\ last.info.wasDirty
    /\ {"dasher", "renderer"} \subseteq last.info.partial

\* C3: every dispose(), on a dirty context or not, leaves the per-operation
\* state at its initial values, and the context still has the stage
\* instances and array caches, and the name, it was constructed with.
C3_DisposeResetsNotDestroys ==
    /\ rc.inst = RendererContext(rc.name).inst
    /\ last.op = "dispose" =>
          /\ rc.stroking = 0
          /\ rc.doClip = FALSE
          /\ rc.closedPath = FALSE
          /\ rc.clipInvScale = 0
          /\ rc.firstFlags = 0

\* C3 witness: a context that was not dirty and had per-operation state set
\* has been disposed
C3_Witness ==
    /\ last.op = "dispose"
    /\ ~last.info.wasDirty
    /\ last.info.hadOpState

\* C11: a dispose() that starts on a context whose dirty flag is false calls
\* dispose() on none of the stages (path iterators, dasher, stroker, renderer,
\* cache), leaves every stage in the state it was in, and leaves dirty false;
\* a dispose() that called dispose() on any stage started on a dirty context.
C11_CleanDisposeCallsNoStage ==
    /\ (last.op = "dispose" /\ ~last.info.wasDirty) =>
          /\ rc.calls = <<>>
          /\ {s \in Stages : rc.stage[s] = "partial"} = last.info.partial
          /\ ~rc.dirty
    /\ (last.op = "dispose" /\ \E s \in Stages : FirstIndex(rc.calls, s) > 0) =>
          last.info.wasDirty

\* C11 witness: a context that was not dirty, while its dasher and stroker
\* held partial buffers, has been disposed
C11_Witness ==
    /\ last.op = "dispose"
    /\ ~last.info.wasDirty
    /\ {"dasher", "stroker"} \subseteq last.info.partial

----------------------------------------------------------------------------
(* SpecStats: the off-heap statistics of one context *)

\* newOffHeapArray(initialSize), statistics part
NewOffHeapArray(c, initialSize) ==
    IF DO_STATS
    THEN [c EXCEPT !.totalOffHeapInitial = @ + initialSize]
    ELSE c

\* newOffHeapArray(initialSize) is called
NewOffHeapArrayCall(initialSize) ==
    /\ rc.totalOffHeapInitial + initialSize <= MaxOffHeap
    /\ rc' = NewOffHeapArray(rc, initialSize)
    /\ last' = Stamp("newOffHeapArray", <<>>)
    /\ UNCHANGED ctxFrame

\* a stage adds the size of its off-heap arrays to stats.totalOffHeap
AddOffHeap(n) ==
    /\ DO_STATS
    /\ rc.totalOffHeap + n <= MaxOffHeap
    /\ rc' = [rc EXCEPT !.totalOffHeap = @ + n]
    /\ last' = Stamp("add", <<>>)
    /\ UNCHANGED ctxFrame

InitStats == InitAll

NextStats ==
    \/ \E n \in 1..MaxOffHeap : NewOffHeapArrayCall(n)
    \/ \E n \in 1..MaxOffHeap : AddOffHeap(n)
    \/ \E v \in BOOLEAN : SetDirty(v)
    \/ CtxDispose

SpecStats == InitStats /\ [][NextStats]_vars

\* C14: with statistics enabled, a dispose() leaves totalOffHeapMax at the
\* larger of the values totalOffHeapMax and totalOffHeap had when it began,
\* and totalOffHeap at 0; totalOffHeapMax is at least every value
\* totalOffHeap had at the start of a past dispose(), and no step decreases
\* it.
C14_PeakOffHeap ==
    /\ []((DO_STATS /\ last.op = "dispose") =>
            /\ rc.totalOffHeapMax =
                  (IF last.info.offHeap > last.info.offHeapMax
                   THEN last.info.offHeap ELSE last.info.offHeapMax)
            /\ rc.totalOffHeap = 0)
    /\ [](DO_STATS => \A v \in seenOffHeap : rc.totalOffHeapMax >= v)
    /\ [][rc.totalOffHeapMax' >= rc.totalOffHeapMax]_vars

\* C14 witness: with statistics enabled, a dispose() has run while
\* totalOffHeap was above 0 and below the peak an earlier dispose() recorded
C14_Witness ==
    /\ DO_STATS
    /\ last.op = "dispose"
    /\ last.info.offHeap > 0
    /\ last.info.offHeap < last.info.offHeapMax
    /\ last.info.offHeapMax \in seenOffHeap

----------------------------------------------------------------------------
(* SpecPath: the recycled Path2D of one context *)

\* new Path2D.Double(WIND_NON_ZERO, INITIAL_EDGES_COUNT): an empty path
NewPath2D == [numTypes |-> 0, collected |-> FALSE]

\* Path2D.reset(): the path of object o becomes empty
ResetPath(objs, o) == [objs EXCEPT ![o].numTypes = 0]

\* (refPath2D != null) ? refPath2D.get() : null, 0 being null
ResolvePath2D(c, objs) ==
    IF c.refPath2D # 0
    THEN (IF objs[c.refPath2D].collected THEN 0 ELSE c.refPath2D)
    ELSE 0

\* mutant of GetPath2D: the path is returned without reset()
GetPath2D_NoReset(c, objs) ==
    LET p2d == ResolvePath2D(c, objs) IN
    IF p2d = 0
    THEN [c    |-> [c EXCEPT !.refPath2D = Len(objs) + 1],
          objs |-> Append(objs, NewPath2D),
          ret  |-> Len(objs) + 1]
    ELSE [c |-> c, objs |-> objs, ret |-> p2d]

\* getPath2D(): the context and the objects it leaves, and the object it
\* returns
GetPath2D(c, objs) ==
    LET p2d == ResolvePath2D(c, objs) IN
    IF p2d = 0
    THEN [c    |-> [c EXCEPT !.refPath2D = Len(objs) + 1],
          objs |-> ResetPath(Append(objs, NewPath2D), Len(objs) + 1),
          ret  |-> Len(objs) + 1]
    ELSE [c |-> c, objs |-> ResetPath(objs, p2d), ret |-> p2d]

\* caller k calls getPath2D() and keeps what it returns
GetPath2DCall(k) ==
    /\ ResolvePath2D(rc, path2Ds) # 0 \/ Len(path2Ds) < MaxPaths
    /\ LET r == GetPath2D(rc, path2Ds) IN
         /\ rc' = r.c
         /\ path2Ds' = r.objs
         /\ strong' = [strong EXCEPT ![k] = r.ret]
         /\ lastPath' = r.ret
         /\ last' = Stamp("getPath2D",
                          [k |-> k, ret |-> r.ret,
                           resolved |-> ResolvePath2D(rc, path2Ds),
                           prev |-> lastPath,
                           held |-> IF lastPath = 0 THEN 0
                                    ELSE path2Ds[lastPath].numTypes,
                           objects |-> Len(path2Ds)])
    /\ UNCHANGED pathFrame

\* caller k appends a segment to the path it refers to
AppendSegment(k) ==
    /\ strong[k] # 0
    /\ path2Ds[strong[k]].numTypes < MaxSegments
    /\ path2Ds' = [path2Ds EXCEPT ![strong[k]].numTypes = @ + 1]
    /\ last' = Stamp("append", <<>>)
    /\ UNCHANGED <<rc, strong, lastPath, pathFrame>>

\* caller k drops its reference to the path
DropPath(k) ==
    /\ strong[k] # 0
    /\ strong' = [strong EXCEPT ![k] = 0]
    /\ last' = Stamp("drop", <<>>)
    /\ UNCHANGED <<rc, path2Ds, lastPath, pathFrame>>

\* the garbage collector collects a Path2D that is only weakly reachable:
\* the weak reference to it is cleared
CollectPath(o) ==
    /\ ~path2Ds[o].collected
    /\ \A k \in Callers : strong[k] # o
    /\ path2Ds' = [path2Ds EXCEPT ![o].collected = TRUE]
    /\ lastPath' = IF lastPath = o THEN 0 ELSE lastPath
    /\ last' = Stamp("collect", <<>>)
    /\ UNCHANGED <<rc, strong, pathFrame>>

InitPath == InitAll

NextPath ==
    \/ \E k \in Callers : GetPath2DCall(k)
    \/ \E k \in Callers : AppendSegment(k)
    \/ \E k \in Callers : DropPath(k)
    \/ \E o \in 1..Len(path2Ds) : CollectPath(o)

SpecPath == InitPath /\ [][NextPath]_vars

\* C12: getPath2D() never returns null and returns an empty path; it returns
\* the Path2D the weak reference resolved to when it resolved, and otherwise
\* a Path2D created by this call, to which the context then holds the weak
\* reference; a call that follows another with no collection of the returned
\* Path2D in between returns the same object, so that whatever the earlier
\* caller had put into it is gone from the path that caller still refers to.
C12_GetPath2DRecyclesEmptyPath ==
    last.op = "getPath2D" =>
      /\ last.info.ret # 0
      /\ last.info.ret \in 1..Len(path2Ds)
      /\ ~path2Ds[last.info.ret].collected
      /\ path2Ds[last.info.ret].numTypes = 0
      /\ ResolvePath2D(rc, path2Ds) = last.info.ret
      /\ last.info.resolved # 0 =>
            /\ last.info.ret = last.info.resolved
            /\ Len(path2Ds) = last.info.objects
      /\ last.info.resolved = 0 =>
            /\ last.info.ret = last.info.objects + 1
            /\ Len(path2Ds) = last.info.objects + 1
      /\ last.info.prev # 0 =>
            /\ last.info.ret = last.info.prev
            /\ \A k \in Callers :
                  strong[k] = last.info.prev =>
                      path2Ds[strong[k]].numTypes = 0

\* C12 witness: a second caller has got the Path2D that the first caller
\* still refers to and had appended segments to
C12_Witness ==
    /\ last.op = "getPath2D"
    /\ last.info.prev # 0
    /\ last.info.held > 0
    /\ \E k \in Callers : k # last.info.k /\ strong[k] = last.info.ret

----------------------------------------------------------------------------
(* SpecPool: worker threads sharing a pool of renderer contexts *)

\* per-operation settings of the two kinds of rendering operation tried:
\* a plain fill, and a clipped stroke of a closed path
Fill ==
    [stroking |-> 0, doClip |-> FALSE, closedPath |-> FALSE,
     clipInvScale |-> 0, firstFlags |-> 0]
ClippedStroke ==
    [stroking |-> 1, doClip |-> TRUE, closedPath |-> TRUE,
     clipInvScale |-> MaxClipInvScale, firstFlags |-> MaxFirstFlags]
OpConfigs == {Fill, ClippedStroke}

\* the pipeline stores the settings of an operation into the context
WithConfig(c, cfg) ==
    [c EXCEPT !.stroking = cfg.stroking, !.doClip = cfg.doClip,
              !.closedPath = cfg.closedPath,
              !.clipInvScale = cfg.clipInvScale,
              !.firstFlags = cfg.firstFlags]

\* mutant of CreateBegin: the counter is read but not incremented
CreateBegin_GetOnly(t) ==
    /\ held[t] = 0
    /\ pending[t] = 0
    /\ idle = {}
    /\ pending' = [pending EXCEPT ![t] = CTX_COUNT]
    /\ last' = Stamp("getAndIncrement", <<>>)
    /\ UNCHANGED <<CTX_COUNT, ctxs, idle, held, poolFrame>>

\* createContext(), first half: CTX_COUNT.getAndIncrement()
CreateBegin(t) ==
    /\ held[t] = 0
    /\ pending[t] = 0
    /\ idle = {}
    /\ pending' = [pending EXCEPT ![t] = CTX_COUNT]
    /\ CTX_COUNT' = CTX_COUNT + 1
    /\ last' = Stamp("getAndIncrement", <<>>)
    /\ UNCHANGED <<ctxs, idle, held, poolFrame>>

\* mutant of CreateEnd: once a context exists, createContext() returns that
\* one instead of constructing another
CreateEnd_ReturnsFirst(t) ==
    /\ pending[t] # 0
    /\ ctxs' = IF Len(ctxs) = 0
               THEN Append(ctxs, RendererContext(<<"ctx", pending[t]>>))
               ELSE ctxs
    /\ held' = [held EXCEPT ![t] = 1]
    /\ pending' = [pending EXCEPT ![t] = 0]
    /\ last' = Stamp("acquire", [t |-> t, c |-> 1, new |-> TRUE])
    /\ UNCHANGED <<CTX_COUNT, idle, poolFrame>>

\* createContext(), second half: new RendererContext("ctx" + k); the pool
\* hands the new context to the thread that asked for one
CreateEnd(t) ==
    /\ pending[t] # 0
    /\ ctxs' = Append(ctxs, RendererContext(<<"ctx", pending[t]>>))
    /\ held' = [held EXCEPT ![t] = Len(ctxs) + 1]
    /\ pending' = [pending EXCEPT ![t] = 0]
    /\ last' = Stamp("acquire", [t |-> t, c |-> Len(ctxs) + 1, new |-> TRUE])
    /\ UNCHANGED <<CTX_COUNT, idle, poolFrame>>

\* acquire(): an idle context is handed out
Acquire(t, c) ==
    /\ held[t] = 0
    /\ pending[t] = 0
    /\ c \in idle
    /\ idle' = idle \ {c}
    /\ held' = [held EXCEPT ![t] = c]
    /\ last' = Stamp("acquire", [t |-> t, c |-> c, new |-> FALSE])
    /\ UNCHANGED <<CTX_COUNT, ctxs, pending, poolFrame>>

\* a rendering operation on the held context runs to completion
RenderOk(t, cfg) ==
    /\ held[t] # 0
    /\ ~ctxs[held[t]].dirty
    /\ ctxs' = [ctxs EXCEPT ![held[t]] = WithConfig(@, cfg)]
    /\ last' = Stamp("render", <<>>)
    /\ UNCHANGED <<CTX_COUNT, idle, held, pending, poolFrame>>

\* a rendering operation on the held context fails in the pipeline: the
\* context stays marked dirty and the dasher keeps its partial buffers
RenderFail(t, cfg) ==
    /\ held[t] # 0
    /\ ~ctxs[held[t]].dirty
    /\ ctxs' = [ctxs EXCEPT ![held[t]] =
                   [WithConfig(@, cfg) EXCEPT !.dirty = TRUE,
                                              !.stage["dasher"] = "partial"]]
    /\ last' = Stamp("render", <<>>)
    /\ UNCHANGED <<CTX_COUNT, idle, held, pending, poolFrame>>

\* release(): context cleanup, then the context joins the idle set
Release(t) ==
    /\ held[t] # 0
    /\ ctxs' = [ctxs EXCEPT ![held[t]] = Dispose(@)]
    /\ idle' = idle \cup {held[t]}
    /\ held' = [held EXCEPT ![t] = 0]
    /\ last' = Stamp("release",
                     [t |-> t, c |-> held[t], wasDirty |-> ctxs[held[t]].dirty])
    /\ UNCHANGED <<CTX_COUNT, pending, poolFrame>>

InitPool == InitAll

NextPool ==
    \/ \E t \in Threads : CreateBegin(t)
    \/ \E t \in Threads : CreateEnd(t)
    \/ \E t \in Threads : \E c \in idle : Acquire(t, c)
    \/ \E t \in Threads : \E cfg \in OpConfigs : RenderOk(t, cfg)
    \/ \E t \in Threads : \E cfg \in OpConfigs : RenderFail(t, cfg)
    \/ \E t \in Threads : Release(t)

SpecPool == InitPool /\ [][NextPool]_vars

----------------------------------------------------------------------------
(* Claims on context reuse and ownership, checked under SpecPool *)

\* C1: every dispose() ends with the dirty flag false, also when the context
\* was dirty when it started: the context a release has just disposed is
\* not dirty, no idle context is dirty, and the context an acquire has just
\* handed out (a new one or a reused one) is not dirty.
C1_DisposeLeavesClean ==
    /\ \A c \in idle : ~ctxs[c].dirty
    /\ last.op = "release" => ~ctxs[last.info.c].dirty
    /\ last.op = "acquire" => ~ctxs[last.info.c].dirty

\* C1 witness: a thread has reacquired a context that an earlier release
\* disposed while it was dirty
C1_Witness ==
    /\ last.op = "acquire"
    /\ ~last.info.new
    /\ FirstIndex(ctxs[last.info.c].calls, "dirty=false") > 0

\* TRUE iff context cleanup has left c as dispose() leaves a context
CleanedUp(c) ==
    /\ ~c.dirty
    /\ ~HasOpState(c)
    /\ \A s \in ForcedStages : c.stage[s] = "idle"

\* C4: a context is held by at most one thread at a time, a held context is
\* never in the idle set, and every context in the idle set has been through
\* context cleanup: release puts it there only after dispose() has run.
C4_ExclusiveOwnership ==
    /\ \A t1, t2 \in Threads :
          (t1 # t2 /\ held[t1] # 0) => held[t1] # held[t2]
    /\ \A t \in Threads :
          held[t] # 0 => (held[t] \in 1..Len(ctxs) /\ held[t] \notin idle)
    /\ \A c \in idle : c \in 1..Len(ctxs) /\ CleanedUp(ctxs[c])
    /\ last.op = "release" => last.info.c \in idle

\* C4 witness: one thread has released a context it had dirtied while
\* another thread holds a context of its own
C4_Witness ==
    /\ last.op = "release"
    /\ last.info.wasDirty
    /\ \E t \in Threads : t # last.info.t /\ held[t] # 0

----------------------------------------------------------------------------
(* SpecCreate: concurrent createContext() calls, some of which fail *)

\* createContext(), second half, when the constructor throws (an allocation
\* fails): no context is returned, the counter value drawn is not reused
CreateFail(t) ==
    /\ pending[t] # 0
    /\ lost' = lost \cup {pending[t]}
    /\ pending' = [pending EXCEPT ![t] = 0]
    /\ last' = Stamp("create failed", [t |-> t])
    /\ UNCHANGED <<CTX_COUNT, ctxs, idle, held, createFrame>>

InitCreate == InitAll

NextCreate ==
    \/ \E t \in Threads : CTX_COUNT <= MaxCreations /\ CreateBegin(t)
    \/ \E t \in Threads : CreateEnd(t)
    \/ \E t \in Threads : CreateFail(t)
    \/ \E t \in Threads : \E c \in idle : Acquire(t, c)
    \/ \E t \in Threads : Release(t)

SpecCreate == InitCreate /\ [][NextCreate]_vars

\* the k of the names "ctx<k>" of the contexts created so far
CtxNumbers == {ctxs[i].name[2] : i \in 1..Len(ctxs)}

\* the counter values drawn by the createContext() calls still under way
PendingNumbers == {pending[t] : t \in {u \in Threads : pending[u] # 0}}

\* C13: under every interleaving of createContext() calls, the contexts
\* created have pairwise distinct names "ctx<k>"; the k values drawn by the
\* n calls made so far (by contexts created, by calls still under way and by
\* calls whose constructor threw) are exactly 1..n, each drawn by one call,
\* so that once every call has returned a context the names are exactly
\* ctx1..ctxn; and the creation counter never decreases.
C13_AtomicCreationCount ==
    /\ [](/\ \A i, j \in 1..Len(ctxs) :
                i # j => ctxs[i].name # ctxs[j].name
          /\ \A i \in 1..Len(ctxs) : ctxs[i].name[1] = "ctx"
          /\ CtxNumbers \cup PendingNumbers \cup lost = 1..(CTX_COUNT - 1)
          /\ Len(ctxs) + Cardinality({t \in Threads : pending[t] # 0})
                + Cardinality(lost) = CTX_COUNT - 1
          /\ (PendingNumbers = {} /\ lost = {}) =>
                CtxNumbers = 1..Len(ctxs))
    /\ [][CTX_COUNT' >= CTX_COUNT]_vars

\* C13 witness: two createContext() calls overlapped, and the call that drew
\* the larger counter value constructed its context first
C13_Witness ==
    /\ last.op = "acquire"
    /\ last.info.new
    /\ Len(ctxs) = 2
    /\ ctxs[1].name[2] > ctxs[2].name[2]
    /\ PendingNumbers = {}

----------------------------------------------------------------------------
(* SpecCache: the array caches of one context *)

\* <cache>.createRef(initialSize): a reference bound to one of the caches
CreateRef(cache, initialSize) == [cache |-> cache, initialSize |-> initialSize]

\* mutant of NewCleanIntArrayRef: the reference is taken from the dirty
\* int cache
NewCleanIntArrayRef_FromDirty(initialSize) ==
    CreateRef("dirtyIntCache", initialSize)

\* newCleanIntArrayRef(initialSize)
NewCleanIntArrayRef(initialSize) == CreateRef("cleanIntCache", initialSize)

\* newDirtyIntArrayRef(initialSize)
NewDirtyIntArrayRef(initialSize) == CreateRef("dirtyIntCache", initialSize)

\* newDirtyDoubleArrayRef(initialSize)
NewDirtyDoubleArrayRef(initialSize) == CreateRef("dirtyDoubleCache", initialSize)

\* newDirtyByteArrayRef(initialSize)
NewDirtyByteArrayRef(initialSize) == CreateRef("dirtyByteCache", initialSize)

\* the methods of RendererContext that create array references
RefMethods == {"newCleanIntArrayRef", "newDirtyIntArrayRef",
               "newDirtyDoubleArrayRef", "newDirtyByteArrayRef"}

\* the reference method m of the context returns
NewArrayRef(m, initialSize) ==
    CASE m = "newCleanIntArrayRef"    -> NewCleanIntArrayRef(initialSize)
      [] m = "newDirtyIntArrayRef"    -> NewDirtyIntArrayRef(initialSize)
      [] m = "newDirtyDoubleArrayRef" -> NewDirtyDoubleArrayRef(initialSize)
      [] m = "newDirtyByteArrayRef"   -> NewDirtyByteArrayRef(initialSize)

\* the cache that zero-fills: ArrayCacheIntClean
IsCleanCache(cache) == cache = "cleanIntCache"

Zeros(n) == [i \in 1..n |-> 0]

\* indices of the arrays of a cache that a checkout of minCapacity may reuse
Reusable(cache, minCapacity) ==
    {a \in 1..Len(arrays) : /\ arrays[a].cache = cache
                            /\ ~arrays[a].taken
                            /\ arrays[a].cap >= minCapacity}

\* checkout(minCapacity) through a reference obtained from method m, when
\* the cache has no array to reuse: a new zero-filled array is allocated
CheckoutNew(m, minCapacity) ==
    LET ref == NewArrayRef(m, minCapacity) IN
    /\ Reusable(ref.cache, minCapacity) = {}
    /\ Len(arrays) < MaxArrays
    /\ arrays' = Append(arrays, [cache |-> ref.cache, cap |-> minCapacity,
                                 data |-> Zeros(minCapacity), length |-> 0,
                                 taken |-> TRUE])
    /\ last' = Stamp("checkout", [via |-> m, a |-> Len(arrays) + 1,
                                  minCapacity |-> minCapacity,
                                  reused |-> FALSE])
    /\ UNCHANGED cacheFrame

\* checkout(minCapacity) through a reference obtained from method m: an
\* array of the cache that is not taken and is large enough is handed out
\* as it is, with the length its last release recorded
CheckoutReuse(m, minCapacity, a) ==
    LET ref == NewArrayRef(m, minCapacity) IN
    /\ a \in Reusable(ref.cache, minCapacity)
    /\ arrays' = [arrays EXCEPT ![a].taken = TRUE]
    /\ last' = Stamp("checkout", [via |-> m, a |-> a,
                                  minCapacity |-> minCapacity,
                                  reused |-> TRUE])
    /\ UNCHANGED cacheFrame

\* the holder of array a writes non-zero values into its first n elements
WriteArray(a, n) ==
    /\ arrays[a].taken
    /\ n \in 1..arrays[a].cap
    /\ arrays' = [arrays EXCEPT
                     ![a].data = [i \in 1..arrays[a].cap |->
                                     IF i <= n THEN 1 ELSE @[i]],
                     ![a].length = n]
    /\ last' = Stamp("write", <<>>)
    /\ UNCHANGED cacheFrame

\* release(buffer, newLength): the array goes back to its cache; a clean
\* cache zeroes its contents, a dirty cache leaves them as they are
ReleaseArray(a) ==
    /\ arrays[a].taken
    /\ arrays' = [arrays EXCEPT
                     ![a].taken = FALSE,
                     ![a].data = IF IsCleanCache(arrays[a].cache)
                                 THEN Zeros(arrays[a].cap) ELSE @]
    /\ last' = Stamp("putArray", [a |-> a, before |-> arrays[a].data])
    /\ UNCHANGED cacheFrame

InitCache == InitAll

NextCache ==
    \/ \E m \in RefMethods : \E n \in 1..MaxCap : CheckoutNew(m, n)
    \/ \E m \in RefMethods : \E n \in 1..MaxCap :
          \E a \in 1..Len(arrays) : CheckoutReuse(m, n, a)
    \/ \E a \in 1..Len(arrays) : \E n \in 1..MaxCap : WriteArray(a, n)
    \/ \E a \in 1..Len(arrays) : ReleaseArray(a)

SpecCache == InitCache /\ [][NextCache]_vars

----------------------------------------------------------------------------
(* Claims on the array caches, checked under SpecCache *)

\* the caches that do not zero-fill
DirtyCaches == {"dirtyIntCache", "dirtyDoubleCache", "dirtyByteCache"}

----------------------------------------------------------------------------
(* SpecLock: threads locking and unlocking Wayland/Vulkan surfaces *)

\* pthread_mutex_lock(m) by thread t can complete: the mutex is free, or it
\* is recursive and t owns it (a thread relocking a default mutex it owns
\* never gets it)
CanLock(m, t) ==
    \/ m.owner = 0
    \/ m.type = "recursive" /\ m.owner = t

\* mutant of InitOps: the mutex is initialised with default attributes
InitOps_DefaultMutex(s) ==
    /\ sd[s].state = "none"
    /\ sd' = [sd EXCEPT ![s] = [state |-> "live", type |-> "default",
                                owner |-> 0, count |-> 0]]
    /\ last' = Stamp("initOps", [s |-> s])
    /\ UNCHANGED <<lockpc, bal, lockFrame>>

\* initOps: the ops are installed and the lock is initialised as a
\* recursive mutex
InitOps(s) ==
    /\ sd[s].state = "none"
    /\ sd' = [sd EXCEPT ![s] = [state |-> "live", type |-> "recursive",
                                owner |-> 0, count |-> 0]]
    /\ last' = Stamp("initOps", [s |-> s])
    /\ UNCHANGED <<lockpc, bal, lockFrame>>

\* initOps when SurfaceData_InitOps or malloc returns NULL: OutOfMemoryError
\* is thrown and the surface gets no ops
InitOpsFails(s) ==
    /\ sd[s].state = "none"
    /\ last' = Stamp("initOps failed", [s |-> s])
    /\ UNCHANGED <<sd, lockpc, bal, lockFrame>>

\* a thread calls WLVKSD_Lock(ops) and reaches pthread_mutex_lock
LockCall(t, s) ==
    /\ lockpc[t] = 0
    /\ sd[s].state = "live"
    /\ bal[t][s] < MaxDepth
    /\ lockpc' = [lockpc EXCEPT ![t] = s]
    /\ last' = Stamp("Lock called", [t |-> t, s |-> s])
    /\ UNCHANGED <<sd, bal, lockFrame>>

\* mutant of LockReturn: WLVKSD_Lock returns without taking the mutex
LockReturn_NoMutex(t, s) ==
    /\ lockpc[t] = s
    /\ lockpc' = [lockpc EXCEPT ![t] = 0]
    /\ bal' = [bal EXCEPT ![t][s] = @ + 1]
    /\ last' = Stamp("Lock", [t |-> t, s |-> s, ret |-> "SD_SUCCESS"])
    /\ UNCHANGED <<sd, lockFrame>>

\* pthread_mutex_lock completes and WLVKSD_Lock returns SD_SUCCESS
LockReturn(t, s) ==
    /\ lockpc[t] = s
    /\ CanLock(sd[s], t)
    /\ sd' = [sd EXCEPT ![s].owner = t, ![s].count = @ + 1]
    /\ lockpc' = [lockpc EXCEPT ![t] = 0]
    /\ bal' = [bal EXCEPT ![t][s] = @ + 1]
    /\ last' = Stamp("Lock", [t |-> t, s |-> s, ret |-> "SD_SUCCESS"])
    /\ UNCHANGED lockFrame

\* WLVKSD_Unlock(ops): pthread_mutex_unlock by the owner; the mutex is free
\* again when its count reaches 0. Unlock is called after a Lock that
\* succeeded (SurfaceData.h).
Unlock(t, s) ==
    /\ lockpc[t] = 0
    /\ sd[s].state = "live"
    /\ bal[t][s] > 0
    /\ sd' = [sd EXCEPT ![s] =
                 IF @.owner # t THEN @
                 ELSE [@ EXCEPT !.count = @ - 1,
                                !.owner = IF sd[s].count = 1 THEN 0 ELSE t]]
    /\ bal' = [bal EXCEPT ![t][s] = @ - 1]
    /\ last' = Stamp("Unlock", [t |-> t, s |-> s])
    /\ UNCHANGED <<lockpc, lockFrame>>

\* WLVKSD_Dispose(ops): the mutex is destroyed. The disposer runs it once no
\* thread uses the surface any more.
SurfaceDispose(s) ==
    /\ sd[s].state = "live"
    /\ sd[s].owner = 0
    /\ \A t \in Threads : lockpc[t] # s /\ bal[t][s] = 0
    /\ sd' = [sd EXCEPT ![s].state = "disposed"]
    /\ last' = Stamp("Dispose", [s |-> s])
    /\ UNCHANGED <<lockpc, bal, lockFrame>>

InitLock == InitAll

NextLock ==
    \/ \E s \in Surfaces : InitOps(s)
    \/ \E s \in Surfaces : InitOpsFails(s)
    \/ \E t \in Threads : \E s \in Surfaces : LockCall(t, s)
    \/ \E t \in Threads : \E s \in Surfaces : LockReturn(t, s)
    \/ \E t \in Threads : \E s \in Surfaces : Unlock(t, s)
    \/ \E s \in Surfaces : SurfaceDispose(s)

SpecLock == InitLock /\ [][NextLock]_vars

----------------------------------------------------------------------------
(* Claims on the surface lock, checked under SpecLock *)

\* C6: the lock of a surface is recursive: a thread that is inside
\* WLVKSD_Lock on a surface whose lock it already holds is not blocked, its
\* call can return at once; and every WLVKSD_Lock that returns returns
\* SD_SUCCESS with the caller owning the lock once per unmatched call.
C6_LockIsRecursive ==
    /\ \A t \in Threads : \A s \in Surfaces :
          (lockpc[t] = s /\ sd[s].owner = t) => ENABLED LockReturn(t, s)
    /\ last.op = "Lock" =>
          /\ last.info.ret = "SD_SUCCESS"
          /\ sd[last.info.s].owner = last.info.t
          /\ sd[last.info.s].count = bal[last.info.t][last.info.s]

\* C6 witness: WLVKSD_Lock has returned to a thread for the second time in
\* a row on the same surface, with no Unlock in between
C6_Witness ==
    /\ last.op = "Lock"
    /\ sd[last.info.s].owner = last.info.t
    /\ sd[last.info.s].count = 2
    /\ bal[last.info.t][last.info.s] = 2

\* C7: per surface, at most one thread has more returned WLVKSD_Lock calls
\* than WLVKSD_Unlock calls, and it is the owner of the mutex; while there
\* is such a thread, no other thread's WLVKSD_Lock on that surface can
\* return; when a WLVKSD_Lock returns, every other thread has made as many
\* Unlock calls on that surface as it had Lock calls return.
C7_MutualExclusion ==
    /\ \A s \in Surfaces : \A t \in Threads :
          bal[t][s] > 0 =>
            /\ sd[s].owner = t
            /\ sd[s].count = bal[t][s]
            /\ \A u \in Threads \ {t} :
                  /\ bal[u][s] = 0
                  /\ lockpc[u] = s => ~ENABLED LockReturn(u, s)
    /\ last.op = "Lock" =>
          \A u \in Threads \ {last.info.t} : bal[u][last.info.s] = 0

\* C7 witness: a thread that locked a surface twice has unlocked it once,
\* and another thread is still waiting inside WLVKSD_Lock on that surface
C7_Witness ==
    /\ last.op = "Unlock"
    /\ bal[last.info.t][last.info.s] = 1
    /\ \E u \in Threads \ {last.info.t} : lockpc[u] = last.info.s

----------------------------------------------------------------------------
(* SpecJaws: threads announcing strings through the JAWS COM API *)

\* results CoInitialize can give
CoInitializeResults == {"S_OK", "S_FALSE", "RPC_E_CHANGED_MODE", "E_OUTOFMEMORY"}

\* results CoCreateInstance can give: the HRESULT and the pointer stored
CoCreateInstanceResults ==
    { [hr |-> "S_OK", ptr |-> "obj"],
      [hr |-> "S_OK", ptr |-> "nullptr"],
      [hr |-> "REGDB_E_CLASSNOTREG", ptr |-> "nullptr"],
      [hr |-> "E_NOINTERFACE", ptr |-> "obj"] }

\* results SayString can give: the HRESULT and the VARIANT_BOOL stored
SayStringResults ==
    { [hr |-> h, ok |-> b] : h \in {"S_OK", "S_FALSE", "E_FAIL"},
                             b \in {"VARIANT_TRUE", "VARIANT_FALSE"} }

\* what the environment answers during one JawsAnnounce call. An answer
\* that is never asked for, because an earlier one ended the call, is left
\* at one fixed value.
JawsInputs ==
    { in \in [ coInit : CoInitializeResults,
               create : CoCreateInstanceResults,
               chars  : {"chars", "nullptr"},       \* GetStringChars
               bstr   : {"bstr", "nullptr"},        \* SysAllocString
               say    : SayStringResults,
               exc    : BOOLEAN ] :                 \* ExceptionCheck
        /\ in.chars = "nullptr" => in.bstr = "nullptr"
        /\ in.bstr = "nullptr" => in.say = [hr |-> "E_FAIL", ok |-> "VARIANT_FALSE"]
        /\ in.bstr # "nullptr" => ~in.exc }

\* one call made to COM, the JNI or the OLE string functions
Ev(api, hr, val) == [api |-> api, hr |-> hr, val |-> val]

\* FAILED(hr)
Failed(hr) == hr \notin {"S_OK", "S_FALSE"}

\* ComInitializationWrapper::isInitialized
IsInitialized(r) == r \in {"S_OK", "S_FALSE", "RPC_E_CHANGED_MODE"}

\* mutant of TryInitialize: CoInitialize is called on every call
TryInitialize_Always(r, coInit) ==
    [result |-> coInit, trace |-> <<Ev("CoInitialize", coInit, "")>>]

\* ComInitializationWrapper::tryInitialize: the result it stores and the
\* calls it makes, coInit being what CoInitialize returns if called
TryInitialize(r, coInit) ==
    IF ~IsInitialized(r)
    THEN [result |-> coInit, trace |-> <<Ev("CoInitialize", coInit, "")>>]
    ELSE [result |-> r, trace |-> <<>>]

\* mutant of ComInitDtor: the destructor tests isInitialized()
ComInitDtor_UsesIsInitialized(r) ==
    IF IsInitialized(r)
    THEN [result |-> "CO_E_NOTINITIALIZED",
          trace |-> <<Ev("CoUninitialize", "", "")>>]
    ELSE [result |-> r, trace |-> <<>>]

\* ComInitializationWrapper::~ComInitializationWrapper
ComInitDtor(r) ==
    IF r = "S_OK" \/ r = "S_FALSE"
    THEN [result |-> "CO_E_NOTINITIALIZED",
          trace |-> <<Ev("CoUninitialize", "", "")>>]
    ELSE [result |-> r, trace |-> <<>>]

\* ComObjectWrapper::~ComObjectWrapper
ComObjDtor(p) ==
    [objPtr |-> "nullptr",
     trace |-> IF p # "nullptr" THEN <<Ev("Release", "", p)>> ELSE <<>>]

\* mutant of NotComThread: the thread check is missing
NotComThread_NoCheck(comInitThreadId, currThread) == FALSE

\* JawsAnnounce: currThread != comInitThreadId
NotComThread(comInitThreadId, currThread) == currThread # comInitThreadId

\* mutant of SayStringSucceeded: the VARIANT_BOOL result is not looked at
SayStringSucceeded_IgnoresFlag(say) == ~Failed(say.hr)

\* JawsAnnounce: the checks made on what SayString returned
SayStringSucceeded(say) ==
    IF Failed(say.hr) THEN FALSE
    ELSE IF say.ok # "VARIANT_TRUE" THEN FALSE
    ELSE TRUE

\* JawsAnnounce, from GetStringChars on: the value returned and the calls
\* made
SpeakString(in) ==
    IF in.chars = "nullptr"
    THEN [ret |-> FALSE,
          trace |-> <<Ev("GetStringChars", "", in.chars)>> \o
                    (IF ~in.exc THEN <<Ev("JNU_ThrowOutOfMemoryError", "", "")>>
                     ELSE <<>>)]
    ELSE IF in.bstr = "nullptr"
    THEN [ret |-> FALSE,
          trace |-> <<Ev("GetStringChars", "", in.chars),
                      Ev("SysAllocString", "", in.bstr),
                      Ev("ReleaseStringChars", "", "")>> \o
                    (IF ~in.exc THEN <<Ev("JNU_ThrowOutOfMemoryError", "", "")>>
                     ELSE <<>>)]
    ELSE [ret |-> SayStringSucceeded(in.say),
          trace |-> <<Ev("GetStringChars", "", in.chars),
                      Ev("SysAllocString", "", in.bstr),
                      Ev("ReleaseStringChars", "", ""),
                      Ev("SayString", in.say.hr, in.say.ok),
                      Ev("SysFreeString", "", "")>>]

\* mutant of CreateAndSpeak: after a failed CoCreateInstance the pointer it
\* stored is kept, and not released
CreateAndSpeak_KeepsFailedPtr(st, in) ==
    LET st1 == [st EXCEPT !.pJawsApi = TRUE] IN
    IF st1.objPtr = "nullptr"
    THEN LET created == Ev("CoCreateInstance", in.create.hr, in.create.ptr) IN
         IF in.create.hr # "S_OK" \/ in.create.ptr = "nullptr"
         THEN [st |-> [st1 EXCEPT !.objPtr = in.create.ptr], ret |-> FALSE,
               trace |-> <<created>>]
         ELSE LET sp == SpeakString(in) IN
              [st |-> [st1 EXCEPT !.objPtr = in.create.ptr], ret |-> sp.ret,
               trace |-> <<created>> \o sp.trace]
    ELSE LET sp == SpeakString(in) IN
         [st |-> st1, ret |-> sp.ret, trace |-> sp.trace]

\* JawsAnnounce, from the declaration of pJawsApi on: st has COM initialised
CreateAndSpeak(st, in) ==
    LET st1 == [st EXCEPT !.pJawsApi = TRUE] IN
    IF st1.objPtr = "nullptr"
    THEN LET created == Ev("CoCreateInstance", in.create.hr, in.create.ptr) IN
         IF in.create.hr # "S_OK" \/ in.create.ptr = "nullptr"
         THEN [st |-> st1, ret |-> FALSE,
               trace |-> <<created>> \o
                         (IF in.create.ptr # "nullptr"
                          THEN <<Ev("Release", "", in.create.ptr)>>
                          ELSE <<>>)]
         ELSE LET sp == SpeakString(in) IN
              [st |-> [st1 EXCEPT !.objPtr = in.create.ptr], ret |-> sp.ret,
               trace |-> <<created>> \o sp.trace]
    ELSE LET sp == SpeakString(in) IN
         [st |-> st1, ret |-> sp.ret, trace |-> sp.trace]

\* JawsAnnounce(env, str, priority) called by thread t with statics st: the
\* statics it leaves, the value it returns and the calls it makes
JawsAnnounceCall(st, t, in) ==
    LET st1 == IF st.comInitThreadId = 0
               THEN [st EXCEPT !.comInitThreadId = t] ELSE st
    IN
    IF NotComThread(st1.comInitThreadId, t)
    THEN [st |-> st1, ret |-> FALSE, trace |-> <<>>]
    ELSE LET ti  == TryInitialize(st1.m_initializeResult, in.coInit)
             st2 == [st1 EXCEPT !.comInitializer = TRUE,
                                !.m_initializeResult = ti.result]
         IN
         IF ~IsInitialized(st2.m_initializeResult)
         THEN [st |-> st2, ret |-> FALSE, trace |-> ti.trace]
         ELSE LET cs == CreateAndSpeak(st2, in) IN
              [st |-> cs.st, ret |-> cs.ret, trace |-> ti.trace \o cs.trace]

\* TRUE iff the trace holds a call of api whose results satisfy Good
HasCall(trace, api, Good(_)) ==
    \E i \in 1..Len(trace) : trace[i].api = api /\ Good(trace[i])

\* number of calls of api in a trace
CountOf(trace, api) ==
    Cardinality({i \in 1..Len(trace) : trace[i].api = api})

\* the calls of a trace added to the history counters
Counted(h, trace) ==
    [h EXCEPT
       !.coInit   = @ + CountOf(trace, "CoInitialize"),
       !.coInitOk = @ + Cardinality({i \in 1..Len(trace) :
                                       /\ trace[i].api = "CoInitialize"
                                       /\ ~Failed(trace[i].hr)}),
       !.coUninit = @ + CountOf(trace, "CoUninitialize"),
       !.coCreate = @ + CountOf(trace, "CoCreateInstance"),
       !.release  = @ + CountOf(trace, "Release")]

\* a thread calls JawsAnnounce
JawsAnnounce(t, in) ==
    /\ proc = "running"
    /\ jhist.calls < MaxCalls
    /\ LET r == JawsAnnounceCall(jaws, t, in) IN
         /\ jaws' = r.st
         /\ jhist' = [Counted(jhist, r.trace) EXCEPT
                        !.calls = @ + 1,
                        !.first = IF @ = 0 THEN t ELSE @,
                        !.apiThreads = IF r.trace = <<>> THEN @
                                       ELSE @ \cup {t}]
         /\ last' = Stamp("JawsAnnounce",
                          [t |-> t, ret |-> r.ret, trace |-> r.trace])
    /\ UNCHANGED <<proc, jawsFrame>>

\* the process exits on thread t: the statics that were constructed are
\* destroyed in reverse order of construction, pJawsApi before
\* comInitializer
ProcessExit(t) ==
    /\ proc = "running"
    /\ LET od == IF jaws.pJawsApi THEN ComObjDtor(jaws.objPtr)
                  ELSE [objPtr |-> jaws.objPtr, trace |-> <<>>]
           id == IF jaws.comInitializer THEN ComInitDtor(jaws.m_initializeResult)
                 ELSE [result |-> jaws.m_initializeResult, trace |-> <<>>]
       IN
         /\ jaws' = [jaws EXCEPT !.objPtr = od.objPtr,
                                 !.m_initializeResult = id.result]
         /\ jhist' = Counted(jhist, od.trace \o id.trace)
         /\ last' = Stamp("exit",
                          [t |-> t, trace |-> od.trace \o id.trace,
                           stored |-> jaws.m_initializeResult])
    /\ proc' = "exited"
    /\ UNCHANGED jawsFrame

\* TRUE iff the answers of in that the call of thread t does not ask for
\* (it makes no CoInitialize, CoCreateInstance or GetStringChars call) are
\* at their fixed values
OnlyAsked(t, in) ==
    LET r == JawsAnnounceCall(jaws, t, in) IN
    /\ ~HasCall(r.trace, "CoInitialize", LAMBDA e : TRUE) =>
          in.coInit = "S_OK"
    /\ ~HasCall(r.trace, "CoCreateInstance", LAMBDA e : TRUE) =>
          in.create = [hr |-> "S_OK", ptr |-> "obj"]
    /\ ~HasCall(r.trace, "GetStringChars", LAMBDA e : TRUE) =>
          (in.chars = "nullptr" /\ ~in.exc)

InitJaws == InitAll

NextJaws ==
    \/ \E t \in Threads : \E in \in JawsInputs :
          OnlyAsked(t, in) /\ JawsAnnounce(t, in)
    \/ \E t \in Threads : ProcessExit(t)

SpecJaws == InitJaws /\ [][NextJaws]_vars

----------------------------------------------------------------------------
(* Claims on JawsAnnounce, checked under SpecJaws *)

\* C8: CoUninitialize is not called while the process runs; when the
\* statics are destroyed it is called exactly once if the stored
\* CoInitialize result is S_OK or S_FALSE and not at all otherwise
\* (CoInitialize never called, failed, or RPC_E_CHANGED_MODE); the number of
\* CoUninitialize calls never exceeds the number of CoInitialize calls that
\* succeeded.
C8_ComInitBalanced ==
    /\ jhist.coUninit <= jhist.coInitOk
    /\ proc = "running" => jhist.coUninit = 0
    /\ last.op = "exit" =>
          jhist.coUninit = (IF last.info.stored \in {"S_OK", "S_FALSE"}
                            THEN 1 ELSE 0)

\* C8 witness: the process has exited after CoInitialize first failed and
\* then, on a later JawsAnnounce call, returned S_FALSE
C8_Witness ==
    /\ last.op = "exit"
    /\ last.info.stored = "S_FALSE"
    /\ jhist.coInit = 2
    /\ jhist.coUninit = 1

C10_TrueOnlyOnFullSuccess ==
    last.op = "JawsAnnounce" =>
      ( last.info.ret = TRUE <=>
          /\ last.info.t = jaws.comInitThreadId
          /\ jaws.m_initializeResult \in {"S_OK", "S_FALSE", "RPC_E_CHANGED_MODE"}
          /\ jaws.objPtr # "nullptr"
          /\ HasCall(last.info.trace, "GetStringChars",
                     LAMBDA e : e.val # "nullptr")
          /\ HasCall(last.info.trace, "SysAllocString",
                     LAMBDA e : e.val # "nullptr")
          /\ HasCall(last.info.trace, "SayString",
                     LAMBDA e : e.hr \in {"S_OK", "S_FALSE"}
                                /\ e.val = "VARIANT_TRUE") )

\* C10 witness: a call has returned true using the JAWS object an earlier
\* call created, with SayString returning S_FALSE and VARIANT_TRUE
C10_Witness ==
    /\ last.op = "JawsAnnounce"
    /\ last.info.ret = TRUE
    /\ ~HasCall(last.info.trace, "CoCreateInstance", LAMBDA e : TRUE)
    /\ HasCall(last.info.trace, "SayString", LAMBDA e : e.hr = "S_FALSE")

\* TRUE of a step that is a JawsAnnounce call
IsAnnounceStep == jhist'.calls = jhist.calls + 1

\* C15: once the stored result is S_OK, S_FALSE or RPC_E_CHANGED_MODE, no
\* step calls CoInitialize, so at most one CoInitialize call succeeds; while
\* the stored result is a failure, a JawsAnnounce call made on the COM
\* thread calls CoInitialize once and stores what it returns, and returns
\* false without going further if that is a failure again.
C15_CoInitializeRetriedUntilDone ==
    /\ [](jhist.coInitOk <= 1)
    /\ [][ /\ IsInitialized(jaws.m_initializeResult) =>
                jhist'.coInit = jhist.coInit
           /\ ( /\ IsAnnounceStep
                /\ ~IsInitialized(jaws.m_initializeResult)
                /\ last'.info.t = jaws'.comInitThreadId ) =>
                /\ jhist'.coInit = jhist.coInit + 1
                /\ last'.info.trace[1].api = "CoInitialize"
                /\ last'.info.trace[1].hr = jaws'.m_initializeResult
                /\ ~IsInitialized(jaws'.m_initializeResult) =>
                      /\ last'.info.ret = FALSE
                      /\ Len(last'.info.trace) = 1 ]_vars

\* C15 witness: CoInitialize failed in the first JawsAnnounce call, was
\* retried and returned RPC_E_CHANGED_MODE in the second, and the third call
\* has gone on to use the JAWS object without calling it
C15_Witness ==
    /\ last.op = "JawsAnnounce"
    /\ jhist.calls = 3
    /\ jhist.coInit = 2
    /\ jhist.coInitOk = 0
    /\ jaws.m_initializeResult = "RPC_E_CHANGED_MODE"
    /\ last.info.trace # <<>>
    /\ ~HasCall(last.info.trace, "CoInitialize", LAMBDA e : TRUE)

\* TRUE iff e is a CoCreateInstance call that JawsAnnounce treats as failed
CreationFailed(e) ==
    e.api = "CoCreateInstance" /\ (e.hr # "S_OK" \/ e.val = "nullptr")

\* C16: CoCreateInstance is called only by a JawsAnnounce call that finds
\* the cached pointer null, and by every such call that has passed the
\* thread check and the COM initialisation; when the creation fails the call
\* releases the object stored, if any, returns false and leaves the pointer
\* null; once an object is cached the pointer keeps it, no JawsAnnounce call
\* calls CoCreateInstance or Release, and the object is released once, by
\* the destruction of the wrapper.
C16_LazyCachedJawsObject ==
    /\ [](jaws.objPtr # "nullptr" => proc = "running")
    /\ [][ /\ jhist'.coCreate > jhist.coCreate =>
                /\ IsAnnounceStep
                /\ jaws.objPtr = "nullptr"
                /\ jhist'.coCreate = jhist.coCreate + 1
           /\ ( /\ IsAnnounceStep
                /\ jaws.objPtr = "nullptr"
                /\ last'.info.t = jaws'.comInitThreadId
                /\ IsInitialized(jaws'.m_initializeResult) ) =>
                jhist'.coCreate = jhist.coCreate + 1
           /\ ( /\ IsAnnounceStep
                /\ HasCall(last'.info.trace, "CoCreateInstance",
                           CreationFailed) ) =>
                /\ jaws'.objPtr = "nullptr"
                /\ last'.info.ret = FALSE
                /\ jhist'.release - jhist.release =
                      (IF HasCall(last'.info.trace, "CoCreateInstance",
                                  LAMBDA e : e.val # "nullptr")
                       THEN 1 ELSE 0)
           /\ ( /\ IsAnnounceStep
                /\ HasCall(last'.info.trace, "CoCreateInstance",
                           LAMBDA e : ~CreationFailed(e)) ) =>
                /\ jaws'.objPtr # "nullptr"
                /\ jhist'.release = jhist.release
           /\ jaws.objPtr # "nullptr" =>
                IF IsAnnounceStep
                THEN /\ jaws'.objPtr = jaws.objPtr
                     /\ jhist'.coCreate = jhist.coCreate
                     /\ jhist'.release = jhist.release
                ELSE /\ proc' = "exited"
                     /\ jaws'.objPtr = "nullptr"
                     /\ jhist'.release = jhist.release + 1
           /\ (~IsAnnounceStep /\ jaws.objPtr = "nullptr") =>
                jhist'.release = jhist.release ]_vars

\* C16 witness: the process has exited, releasing the object that the second
\* CoCreateInstance call created, after the first call had failed with an
\* object stored, which was released at once
C16_Witness ==
    /\ last.op = "exit"
    /\ jhist.coCreate = 2
    /\ jhist.release = 2
    /\ jhist.calls = 3
    /\ HasCall(last.info.trace, "Release", LAMBDA e : TRUE)

====
